---- MODULE Spec2Model ----
(***************************************************************************)
(* State-machine model of the VibeSurf orchestration engine                *)
(* (src/vibe_surf/agents/vibe_surf_agent.py): the run() call, the workflow *)
(* task it spawns (gate, planning step, task dispatch, report step and     *)
(* routers), the control operations stop/pause/resume/pause_agent/         *)
(* resume_agent, and the workers of a dispatch.                            *)
(*                                                                         *)
(* The program runs on one asyncio event loop: code between two awaits is  *)
(* atomic.  Every action below is one such segment; a process position     *)
(* (rpc, wpc, cpc) names the await at which the coroutine is suspended.    *)
(*                                                                         *)
(* External collaborators (planner, worker capability, browser manager,    *)
(* report writer) are nondeterministic: each await on them may return or   *)
(* raise.  The workflow graph hands every node the session state object    *)
(* that control operations reach through _current_state.                   *)
(***************************************************************************)
EXTENDS Integers, Sequences, FiniteSets, TLC

\* ---------------------------------------------------------------- bounds
MaxTasks == 2          \* longest task list the planner hands to a dispatch
RecursionLimit == 2    \* supersteps of the workflow graph before it gives up
MaxCtl == 2            \* control operations issued by the external controller
MaxRuns == 1           \* run() calls
MaxFollow == 4         \* largest number of follow-up suggestions of a finish action
LongLimit == 4         \* supersteps of a run that no controller interferes with
MaxIndex == 6          \* largest message_index asked of get_activity_logs
MaxActs == 1           \* longest action list of one planner response

\* ------------------------------------------------------------- constants
SuggestionCap == 3     \* follow_tasks[:3]

VARIABLES
    has_state,        \* self._current_state is not None
    st,               \* the session state object (VibeSurfState)
    running_agents,   \* self._running_agents: insertion-ordered ids
    execution_task,   \* self._execution_task: "none" | "active" | "ok" | "exc" | "cancelled"
    lock,             \* holder of self._control_lock: "free" | "run" | "wf" | "ctl"
    rpc,              \* position of the run() coroutine
    run_in,           \* the arguments of the current run(): upload_files given or None
    last_response,    \* what the last run() returned
    nruns,            \* run() calls made so far
    wpc,              \* position of the workflow task
    node,             \* the node the workflow is in / about to enter
    steps,            \* supersteps executed by the workflow graph
    cancel_req,       \* a CancelledError is pending for the workflow task
    wf_out,           \* outcome the workflow task carries through its finally
    acts,             \* actions of the planner response still to process
    planned,          \* planner invocations of the current run
    agents,           \* dispatcher local `agents`: task index of each created worker
    wstat,            \* per created worker (by position in agents): its run status
    wctl,             \* per created worker: "run" | "paused" | "stopped" (hooks received)
    whook,            \* the worker class has the pause/resume/stop hooks
    handles,          \* ids registered with the browser manager (resource handles)
    released,         \* ids whose handle the browser manager released
    clean_idx,        \* index of the cleanup loop of the parallel dispatcher
    pend,             \* what the dispatcher's try block left for after its finally
    cpc,              \* position of the control operation in flight
    cop,              \* the control operation in flight
    pass_idx,         \* items consumed by the registry iterator of the pass
    pass_size,        \* size of the registry when the iterator was created
    ctl_result,       \* last ControlResult: [op, success, kind]
    nctl,             \* control operations issued so far
    message_history,  \* self.message_history
    activity_logs,    \* self.activity_logs
    cur_session_id,   \* self.cur_session_id ("none": None)
    store,            \* the session store: per session id, its two pickle files
    run2,             \* a second run() called during the first: none/active/ended/returned
    obs               \* observations recorded for the properties (not program state)

vars == << has_state, st, running_agents, execution_task, lock, rpc, run_in,
           last_response, nruns, wpc, node, steps, cancel_req, wf_out, acts,
           planned, agents, wstat, wctl, whook, handles, released, clean_idx, pend,
           cpc, cop, pass_idx, pass_size, ctl_result, nctl, message_history,
           activity_logs, cur_session_id, store, run2, obs >>

\* ------------------------------------------------------------ data model
\* The forms a task descriptor takes in the dispatchers: a [target, text]
\* list, a dict, or anything else (a plain string).
Shapes == {"pair", "map", "text"}

\* A task descriptor: its shape and its description.  The description of the
\* i-th descriptor of a list is i, so a result's task field tells which
\* descriptor it describes.
Descriptor(f, i) == [shape |-> f[1], target |-> f[2], desc |-> i]

\* A list always names its target ([target_id, text]), a dict names one when
\* it has a 'tab_id', anything else names none.
Forms ==
    { f \in Shapes \X BOOLEAN : /\ f[1] = "pair" => f[2]
                                /\ f[1] = "text" => ~f[2] }

TaskLists ==
    {<< >>} \cup
    UNION { { [i \in 1..n |-> Descriptor(f[i], i)] : f \in [1..n -> Forms] }
            : n \in 1..MaxTasks }

NoResponse == [kind |-> "none", sugg |-> << >>]

\* generated_report_path: None, or the path generate_report returned in
\* superstep k
NoPath == 0
ReportPath(k) == k

\* VibeSurfState(...) as run() builds it
InitialState ==
    [ current_step |-> "vibesurf_agent",
      is_complete |-> FALSE,
      browser_tasks |-> << >>,
      browser_results |-> << >>,
      current_action |-> "none",
      generated_report_path |-> NoPath,
      final_response |-> NoResponse,
      paused |-> FALSE,
      stopped |-> FALSE,
      should_pause |-> FALSE,
      should_stop |-> FALSE ]

\* BrowserTaskResult
TaskResult(aid, task, ok, err) ==
    [agent_id |-> aid, task |-> task, success |-> ok, error |-> err]

\* BrowserTaskResult.task is declared str: the model validation accepts a
\* descriptor passed as `task=` only when it is a plain string.
TaskFieldValid(d) == d.shape = "text"

\* agent ids
ParallelId(i) == << "agent", i >>          \* f"agent-{i + 1}-{task_id[-4:]}"
SingleId(i) == << "agent-single", i >>     \* f"agent-single-{task_id[-4:]}-{i}"

Min(a, b) == IF a < b THEN a ELSE b

Range(s) == { s[i] : i \in DOMAIN s }

\* dict.pop(key, None) / del on the insertion-ordered registry
RECURSIVE Without(_, _)
Without(s, x) ==
    IF s = << >> THEN << >>
    ELSE IF Head(s) = x THEN Without(Tail(s), x)
    ELSE << Head(s) >> \o Without(Tail(s), x)

\* dict[key] = value on the insertion-ordered registry
Put(s, x) == IF x \in Range(s) THEN s ELSE Append(s, x)

\* ---------------------------------------------------------------- planner
\* One action of a planner response (AgentOutput.action[i]).
PlannerAction(kind, tasks, k) == [kind |-> kind, tasks |-> tasks, k |-> k]

PlannerActions ==
    { PlannerAction("dispatch", tl, 0) : tl \in TaskLists } \cup
    { PlannerAction("report", << >>, 0), PlannerAction("other", << >>, 0) } \cup
    { PlannerAction("done", << >>, k) : k \in {0, MaxFollow} }

\* The action lists a planner response may carry.
ActionLists ==
    UNION { [1..n -> PlannerActions] : n \in 0..MaxActs }

\* FormatFinalResponse that lists every follow-up task
FormatFinalResponse_NoCap(k) ==
    [kind |-> "done", sugg |-> [j \in 1..k |-> j]]

\* task_done: the final response is the body followed by follow_tasks[:3],
\* numbered from 1.
FormatFinalResponse(k) ==
    [kind |-> "done", sugg |-> [j \in 1..Min(k, SuggestionCap) |-> j]]

FailedResponse == [kind |-> "failed", sugg |-> << >>]

\* ----------------------------------------------------------------- status
\* get_status(): the overall status computed from the flags ...
OverallStatusRaw ==
    IF ~has_state THEN "idle"
    ELSE IF st.stopped THEN "stopped"
    ELSE IF st.paused \/ st.should_pause THEN "paused"
    ELSE IF st.is_complete THEN "completed"
    ELSE "running"

\* ... and what VibeSurfStatus accepts as overall_status
StatusLiteral == {"running", "paused", "stopped", "idle", "error"}

\* get_status(): a value outside the Literal fails the model validation and
\* the except branch answers with overall_status "error".
GetStatus ==
    IF OverallStatusRaw \in StatusLiteral THEN OverallStatusRaw ELSE "error"

\* ---------------------------------------------------------------- routers
route_after_vibesurf_agent(s) ==
    IF s.current_step = "browser_task_execution" THEN "browser_task_execution"
    ELSE IF s.current_step = "report_task_execution" THEN "report_task_execution"
    ELSE IF s.current_step = "vibesurf_agent" THEN "vibesurf_agent"
    ELSE "END"

route_after_browser_task_execution(s) == "vibesurf_agent"

route_after_report_task_execution(s) == "vibesurf_agent"

\* The conditional edges of create_vibe_surf_workflow.
Route(n, s) ==
    CASE n = "vibesurf_agent" -> route_after_vibesurf_agent(s)
      [] n = "browser_task_execution" -> route_after_browser_task_execution(s)
      [] n = "report_task_execution" -> route_after_report_task_execution(s)

NoErr == << "", 0 >>

\* What the try block of the parallel dispatcher leaves for after its finally
NoPend == [kind |-> "none", results |-> << >>, e |-> NoErr]

\* ------------------------------------------------------------ observations
\* What the properties need to remember about the past.
ObsInit ==
    [ stopw |-> "none",      \* a stop() begun with workers registered: none/called/ret
      snap_reg |-> TRUE,     \* ... registry empty when that stop() returned
      snap_status |-> "none",\* ... get_status() when that stop() returned
      fin |-> 0,             \* planner invocations when a finish action was processed
      gstop |-> FALSE,       \* the gate has reported stopped in this run
      sip |-> FALSE,         \* stop() set its flags while the gate was in its pause wait
      held |-> FALSE,        \* the gate has held a step back in its pause wait
      base |-> 0,            \* len(browser_results) when the last dispatch began
      disp |-> "none",       \* path of the last dispatch: none/single/parallel
      dend |-> "none",       \* how the last dispatch ended: none/returned/cancelled
      raised |-> {},         \* task indexes whose worker raised in the last dispatch
      rnp |-> FALSE,         \* the resume() in progress was called when not paused
      tmo |-> FALSE,         \* a wait_for of the last stop() ran out of time
      sc |-> FALSE ]         \* a stop() has cancelled the workflow task of this run

\* ---------------------------------------------------------- session store
\* The session ids of the model: "A" has files from a prior run, "new" is
\* the id uuid7str() makes up for a run without one.
SessionIds == {"A", "new"}

\* What run() is given as session_id ("none": None)
SessionArgs == {"none", "A"}

\* An entry of the activity log
LogEntry(name, status) == [agent_name |-> name, agent_status |-> status]

\* A pickle file of the store
NoFile == [file |-> "absent", data |-> << >>]
File(data) == [file |-> "intact", data |-> data]

\* The files a prior run of session "A" left: its system prompt, request and
\* planner answer, and its request entry.
PriorStore ==
    [s \in SessionIds |->
       IF s = "A"
       THEN [hist |-> File(<< "system", "prior_request", "prior_assistant" >>),
             log |-> File(<< LogEntry("user", "prior_request") >>)]
       ELSE [hist |-> NoFile, log |-> NoFile]]

\* load_message_history that returns [] for every session
load_message_history_Empty(sid) == << >>

\* load_message_history / load_activity_logs: [] without a file
load_message_history(sid) ==
    IF store[sid].hist.file = "intact" THEN store[sid].hist.data ELSE << >>

load_activity_logs(sid) ==
    IF store[sid].log.file = "intact" THEN store[sid].log.data ELSE << >>

\* Save that writes the message history only
Save_HistoryOnly(sid, hist, log) ==
    [store EXCEPT ![sid].hist = File(hist)]

\* save_message_history and save_activity_logs of session sid
Save(sid, hist, log) ==
    [store EXCEPT ![sid] = [hist |-> File(hist), log |-> File(log)]]

\* run(): session_id = session_id or self.cur_session_id or uuid7str()
SessionOf(arg) ==
    IF arg # "none" THEN arg
    ELSE IF cur_session_id # "none" THEN cur_session_id
    ELSE "new"

\* ------------------------------------------------------------------- Init
NoOp == [op |-> "none", id |-> << "none", 0 >>]
NoResult == [op |-> "none", success |-> TRUE, kind |-> "none"]

Init ==
    /\ has_state = FALSE
    /\ st = InitialState
    /\ running_agents = << >>
    /\ execution_task = "none"
    /\ lock = "free"
    /\ rpc = "idle"
    /\ run_in = [upload |-> "list", resp |-> "none"]
    /\ last_response = "none"
    /\ nruns = 0
    /\ wpc = "none"
    /\ node = "vibesurf_agent"
    /\ steps = 0
    /\ cancel_req = FALSE
    /\ wf_out = "none"
    /\ acts = << >>
    /\ planned = 0
    /\ agents = << >>
    /\ wstat = << >>
    /\ wctl = << >>
    /\ whook \in BOOLEAN
    /\ handles = {}
    /\ released = {}
    /\ clean_idx = 0
    /\ pend = NoPend
    /\ cpc = "idle"
    /\ cop = NoOp
    /\ pass_idx = 0
    /\ pass_size = 0
    /\ ctl_result = NoResult
    /\ nctl = 0
    /\ message_history = << >>
    /\ activity_logs = << >>
    /\ cur_session_id = "none"
    /\ store = PriorStore
    /\ run2 = "none"
    /\ obs = ObsInit

engineVars == << has_state, st, running_agents, execution_task, lock >>
runVars == << rpc, run_in, last_response, nruns >>
wfVars == << wpc, node, steps, cancel_req, wf_out, acts, planned >>
dispVars == << agents, wstat, wctl, whook, handles, released, clean_idx, pend >>
ctlVars == << cpc, cop, pass_idx, pass_size, ctl_result, nctl >>
sessVars == << message_history, activity_logs, cur_session_id, store >>

\* ---------------------------------------------------------- workflow task
\* A continuation of the workflow task: the values it leaves in the state.
Cont(s, pc, n, reg, etask, out, ci) ==
    [st |-> s, wpc |-> pc, node |-> n, reg |-> reg, etask |-> etask,
     wf_out |-> out, clean |-> ci]

Apply(c) ==
    /\ st' = c.st
    /\ wpc' = c.wpc
    /\ node' = c.node
    /\ running_agents' = c.reg
    /\ execution_task' = c.etask
    /\ wf_out' = c.wf_out
    /\ clean_idx' = c.clean

\* _execute_workflow ends with outcome `out`: its finally clears the registry
\* under the control lock, waiting for the lock when it is held.
End(out, s, reg) ==
    IF lock = "free"
    THEN Cont(s, "done", node, << >>, out, "none", 0)
    ELSE Cont(s, "wf_finally", node, reg, execution_task, out, 0)

\* A node returned state s: the conditional edge picks the next node.
Finish(n, s, reg) ==
    IF Route(n, s) = "END"
    THEN End("ok", s, reg)
    ELSE Cont(s, "gate", Route(n, s), reg, execution_task, wf_out, 0)

\* control_aware_node: the head of the pause loop and what follows it
PauseLoop(s) ==
    IF s.paused \/ s.should_pause
    THEN [s |-> IF ~s.paused /\ s.should_pause
                THEN [s EXCEPT !.paused = TRUE, !.should_pause = FALSE]
                ELSE s,
          v |-> "sleep"]
    ELSE IF s.should_stop
    THEN [s |-> [s EXCEPT !.stopped = TRUE, !.should_stop = FALSE], v |-> "stopped"]
    ELSE [s |-> s, v |-> "run"]

\* GateEntry without its first test: a stopped session goes on to the pause
\* loop and the stop-signal check.
GateEntry_NoSkip(s) == PauseLoop(s)

\* control_aware_node: entry
GateEntry(s) ==
    IF s.stopped THEN [s |-> s, v |-> "skip"] ELSE PauseLoop(s)

\* GateAfterSleep without the return of its stop branch: the gate falls
\* through to the step function.
GateAfterSleep_NoReturn(s) ==
    IF s.stopped \/ s.should_stop
    THEN [s |-> [s EXCEPT !.stopped = TRUE, !.should_stop = FALSE], v |-> "run"]
    ELSE PauseLoop(s)

\* control_aware_node: after asyncio.sleep(0.5) in the pause loop
GateAfterSleep(s) ==
    IF s.stopped \/ s.should_stop
    THEN [s |-> [s EXCEPT !.stopped = TRUE, !.should_stop = FALSE], v |-> "stopped"]
    ELSE PauseLoop(s)

\* DispatchPath with the threshold moved by one
DispatchPath_UpToTwo(tasks) == IF Len(tasks) <= 2 THEN "single" ELSE "parallel"

\* execute_tab_based_browser_tasks: the strategy for a task list
DispatchPath(tasks) == IF Len(tasks) <= 1 THEN "single" ELSE "parallel"

\* The exception texts that end up in results
ExcText(kind, i) == << kind, i >>

\* _browser_task_execution_node_impl, except branch: one failed result per
\* pending descriptor, carrying the text of the exception that escaped.
ErrorResults(tasks, e) ==
    [i \in 1..Len(tasks) |-> TaskResult(<< "error", 0 >>, tasks[i].desc, FALSE, e)]

\* _browser_task_execution_node_impl: the dispatcher returned `results`
DispatchReturn(s, results, reg) ==
    Finish("browser_task_execution",
           [s EXCEPT !.browser_results = @ \o results,
                     !.current_step = "vibesurf_agent"],
           reg)

\* DispatchFailed with the error results assigned instead of appended
DispatchFailed_Assign(s, e, reg) ==
    Finish("browser_task_execution",
           [s EXCEPT !.browser_results = ErrorResults(s.browser_tasks, e),
                     !.current_step = "vibesurf_agent"],
           reg)

\* _browser_task_execution_node_impl: the dispatcher raised e
DispatchFailed(s, e, reg) ==
    Finish("browser_task_execution",
           [s EXCEPT !.browser_results = @ \o ErrorResults(s.browser_tasks, e),
                     !.current_step = "vibesurf_agent"],
           reg)

\* The node function begins (the gate let it through).
StartNode(n, s, reg) ==
    CASE n = "vibesurf_agent" ->
            Cont(s, "plan_ctx", n, reg, execution_task, wf_out, 0)
      [] n = "report_task_execution" ->
            Cont(s, "r_gen", n, reg, execution_task, wf_out, 0)
      [] n = "browser_task_execution" ->
            IF Len(s.browser_tasks) = 0
            THEN DispatchReturn(s, << >>, reg)
            ELSE IF DispatchPath(s.browser_tasks) = "single"
            THEN Cont(s, "s_focus", n, reg, execution_task, wf_out, 0)
            ELSE Cont(s, "p_register", n, reg, execution_task, wf_out, 0)

\* The gate's verdict g for node n turned into a continuation.
GateCont(n, g, reg) ==
    CASE g.v = "run" -> StartNode(n, g.s, reg)
      [] g.v = "sleep" -> Cont(g.s, "pause_sleep", n, reg, execution_task, wf_out, 0)
      [] OTHER -> Finish(n, g.s, reg)

ObsGate(n, g) ==
    [obs EXCEPT
       !.gstop = @ \/ g.v \in {"skip", "stopped"},
       !.held = @ \/ g.v = "sleep",
       !.base = IF g.v = "run" /\ n = "browser_task_execution"
                THEN Len(g.s.browser_results) ELSE @,
       !.disp = IF g.v = "run" /\ n = "browser_task_execution"
                THEN DispatchPath(g.s.browser_tasks) ELSE @,
       !.dend = IF g.v = "run" /\ n = "browser_task_execution"
                THEN (IF Len(g.s.browser_tasks) = 0 THEN "returned" ELSE "none")
                ELSE @,
       !.raised = IF g.v = "run" /\ n = "browser_task_execution" THEN {} ELSE @]

\* A superstep begins: the graph enters `node` through control_aware_node,
\* unless the recursion limit of the graph is used up.
Superstep(limit) ==
    /\ wpc = "gate"
    /\ ~cancel_req
    /\ IF steps >= limit
       THEN /\ Apply(End("exc", st, running_agents))
            /\ UNCHANGED << steps, obs >>
       ELSE /\ steps' = steps + 1
            /\ Apply(GateCont(node, GateEntry(st), running_agents))
            /\ obs' = ObsGate(node, GateEntry(st))
    /\ UNCHANGED << has_state, lock, runVars, cancel_req, acts, planned, agents,
                    wstat, wctl, whook, handles, released, pend, ctlVars >>
    /\ UNCHANGED << sessVars, run2 >>

WfGate == Superstep(RecursionLimit)

\* The same with room for two rounds of planning and dispatch
WfGateLong == Superstep(LongLimit)

\* The gate wakes from asyncio.sleep(0.5) in its pause loop.
WfPauseWake ==
    /\ wpc = "pause_sleep"
    /\ ~cancel_req
    /\ Apply(GateCont(node, GateAfterSleep(st), running_agents))
    /\ obs' = ObsGate(node, GateAfterSleep(st))
    /\ UNCHANGED << has_state, lock, runVars, steps, cancel_req, acts, planned,
                    agents, wstat, wctl, whook, handles, released, pend, ctlVars >>
    /\ UNCHANGED << sessVars, run2 >>

\* ------------------------------------------------------------ planning step
PlannerResponses ==
    { [ok |-> FALSE, actions |-> << >>] } \cup
    { [ok |-> TRUE, actions |-> a] : a \in ActionLists }

\* _vibesurf_agent_node_impl, except branch
PlanFailed(s, reg) ==
    Finish("vibesurf_agent",
           [s EXCEPT !.final_response = FailedResponse, !.is_complete = TRUE],
           reg)

\* _vibesurf_agent_node_impl: the loop over the actions of a response, from
\* action list a on, up to its next await (tools.act) or its return.
ProcessActions(s, a, reg) ==
    IF a = << >> THEN Finish("vibesurf_agent", s, reg)
    ELSE CASE Head(a).kind = "dispatch" ->
                Finish("vibesurf_agent",
                       [s EXCEPT !.browser_tasks = Head(a).tasks,
                                 !.current_action = "execute_browser_use_agent_tasks",
                                 !.current_step = "browser_task_execution"],
                       reg)
           [] Head(a).kind = "report" ->
                Finish("vibesurf_agent",
                       [s EXCEPT !.current_action = "execute_report_writer_agent",
                                 !.current_step = "report_task_execution"],
                       reg)
           [] Head(a).kind = "done" ->
                Finish("vibesurf_agent",
                       [s EXCEPT !.final_response = FormatFinalResponse(Head(a).k),
                                 !.is_complete = TRUE],
                       reg)
           [] OTHER ->
                Cont(s, "plan_act", "vibesurf_agent", reg, execution_task, wf_out, 0)

ObsFinish(a) ==
    [obs EXCEPT !.fin = IF a # << >> /\ Head(a).kind = "done" /\ @ = 0
                        THEN planned ELSE @]

\* The browser context was fetched (get_tabs, get_activate_tab; outside the
\* try): the planner is invoked, or the fetch raised out of the node.
WfPlanCtx ==
    /\ wpc = "plan_ctx"
    /\ ~cancel_req
    /\ \E r \in {"ok", "raise"} :
         IF r = "ok"
         THEN /\ wpc' = "plan_llm"
              /\ planned' = planned + 1
              /\ UNCHANGED << st, node, running_agents, execution_task, wf_out,
                              clean_idx >>
         ELSE /\ Apply(End("exc", st, running_agents))
              /\ UNCHANGED planned
    /\ UNCHANGED << has_state, lock, runVars, steps, cancel_req, acts, agents,
                    wstat, wctl, whook, handles, released, pend, ctlVars, obs >>
    /\ UNCHANGED << sessVars, run2 >>

\* llm.ainvoke returned a response or raised.
WfPlanLlm ==
    /\ wpc = "plan_llm"
    /\ ~cancel_req
    /\ \E r \in PlannerResponses :
         IF r.ok
         THEN /\ Apply(ProcessActions(st, r.actions, running_agents))
              /\ acts' = r.actions
              /\ obs' = ObsFinish(r.actions)
              /\ message_history' = Append(message_history, "assistant")
              /\ UNCHANGED activity_logs
         ELSE /\ Apply(PlanFailed(st, running_agents))
              /\ activity_logs' =
                    Append(activity_logs, LogEntry("vibesurf_agent", "error"))
              /\ UNCHANGED << acts, obs, message_history >>
    /\ UNCHANGED << has_state, lock, runVars, steps, cancel_req, planned, agents,
                    wstat, wctl, whook, handles, released, pend, ctlVars,
                    cur_session_id, store, run2 >>

\* tools.act returned for the action at the head of acts (its extracted
\* content or its error go to the history and the log), or raised.
\* What action.function does when VibeSurfTools.act calls it: it returns a
\* string, an ActionResult (with content, with an error, with both, with
\* neither), None or a value of another type, or it raises a BrowserError,
\* a TimeoutError or another exception.
ActOutcomes ==
    {"str", "content", "error", "both", "empty", "none", "other_type",
     "browser_error", "timeout", "exception"}

\* Act with the lookup of the action name outside the try
Act_LookupRaises(known, o) ==
    IF ~known THEN "raise"
    ELSE CASE o \in {"str", "content"} -> "content"
           [] o = "both" -> "both"
           [] o \in {"empty", "none"} -> "empty"
           [] o = "other_type" -> "raise"
           [] OTHER -> "error"

\* VibeSurfTools.act for an action whose name is or is not in the registry:
\* the ActionResult it returns by what it carries, or "raise".
Act(known, o) ==
    IF ~known THEN "error"
    ELSE CASE o \in {"str", "content"} -> "content"
           [] o = "both" -> "both"
           [] o \in {"empty", "none"} -> "empty"
           [] o = "other_type" -> "raise"
           [] OTHER -> "error"

\* _vibesurf_agent_node_impl: what a result r of act adds to the message
\* history and to the activity log
ResultMessages(r) ==
    (IF r \in {"content", "both"} THEN << "action_result" >> ELSE << >>)
    \o (IF r \in {"error", "both"} THEN << "action_error" >> ELSE << >>)

ResultEntries(r) ==
    (IF r \in {"content", "both"}
     THEN << LogEntry("vibesurf_agent", "result") >> ELSE << >>)
    \o (IF r \in {"error", "both"}
        THEN << LogEntry("vibesurf_agent", "error") >> ELSE << >>)

WfPlanAct ==
    /\ wpc = "plan_act"
    /\ ~cancel_req
    /\ \E known \in BOOLEAN, o \in ActOutcomes :
         LET r == Act(known, o) IN
         IF r = "raise"
         THEN /\ Apply(PlanFailed(st, running_agents))
              /\ activity_logs' =
                    Append(activity_logs, LogEntry("vibesurf_agent", "error"))
              /\ UNCHANGED << acts, obs, message_history >>
         ELSE /\ Apply(ProcessActions(st, Tail(acts), running_agents))
              /\ acts' = Tail(acts)
              /\ obs' = ObsFinish(Tail(acts))
              /\ message_history' = message_history \o ResultMessages(r)
              /\ activity_logs' = activity_logs \o ResultEntries(r)
    /\ UNCHANGED << has_state, lock, runVars, steps, cancel_req, planned, agents,
                    wstat, wctl, whook, handles, released, pend, ctlVars,
                    cur_session_id, store, run2 >>

\* ------------------------------------------------------------- report step
\* _report_task_execution_node_impl: generate_report returned or raised.
ReportDone_PathLost(s, r, k) ==
    [s EXCEPT !.generated_report_path = IF r = "ok" THEN ReportPath(k) ELSE NoPath,
              !.current_step = "vibesurf_agent"]

\* _report_task_execution_node_impl: the state after generate_report
\* returned a path (r = "ok") or raised, in superstep k
ReportDone(s, r, k) ==
    [s EXCEPT !.generated_report_path = IF r = "ok" THEN ReportPath(k) ELSE @,
              !.current_step = "vibesurf_agent"]

WfReport ==
    /\ wpc = "r_gen"
    /\ ~cancel_req
    /\ \E r \in {"ok", "raise"} :
         /\ Apply(Finish("report_task_execution", ReportDone(st, r, steps),
                         running_agents))
         /\ activity_logs' =
               Append(activity_logs,
                      LogEntry("report_task_executor",
                               IF r = "ok" THEN "result" ELSE "error"))
    /\ UNCHANGED << has_state, lock, runVars, steps, cancel_req, acts, planned,
                    agents, wstat, wctl, whook, handles, released, pend, ctlVars,
                    obs >>
    /\ UNCHANGED << message_history, cur_session_id, store, run2 >>

\* --------------------------------------------------- sequential dispatcher
\* The dispatcher has returned, raised or been cancelled out of: its locals
\* (agents, histories, the pending outcome) are gone.
Ended(c) == c.wpc \in {"gate", "done", "wf_finally"}

Locals(c, a, ws, wc, p) ==
    /\ agents' = IF Ended(c) THEN << >> ELSE a
    /\ wstat' = IF Ended(c) THEN << >> ELSE ws
    /\ wctl' = IF Ended(c) THEN << >> ELSE wc
    /\ pend' = IF Ended(c) THEN NoPend ELSE p

ObsEnd(c, o) ==
    [o EXCEPT !.dend = IF c.wpc = "gate" THEN "returned"
                       ELSE IF c.wpc \in {"done", "wf_finally"} THEN "cancelled"
                       ELSE @]

\* execute_single_browser_tasks, `except Exception as e` of the task: a
\* failed result is built from the descriptor.
SingleExcept(s, e, reg) ==
    IF TaskFieldValid(s.browser_tasks[1])
    THEN DispatchReturn(s, << TaskResult(SingleId(1), 1, FALSE, e) >>, reg)
    ELSE DispatchFailed(s, ExcText("validation", 1), reg)

\* execute_single_browser_tasks, after `history = await agent.run()`
SingleResult(s, r, reg) ==
    IF r = "raise" THEN SingleExcept(s, ExcText("worker", 1), reg)
    ELSE IF TaskFieldValid(s.browser_tasks[1])
    THEN DispatchReturn(s, << TaskResult(SingleId(1), 1, TRUE, NoErr) >>, reg)
    ELSE SingleExcept(s, ExcText("validation", 1), reg)

\* The tab of the single task was focused (or that raised); the worker is
\* created and registered (or its construction raised) and started.
WfSingleFocus ==
    /\ wpc = "s_focus"
    /\ ~cancel_req
    /\ \E r \in {"raise", "construct_fail", "started"} :
         LET c == CASE r = "raise" ->
                         DispatchFailed(st, ExcText("focus", 1), running_agents)
                    [] r = "construct_fail" ->
                         SingleExcept(st, ExcText("construct", 1), running_agents)
                    [] OTHER ->
                         Cont(st, "s_run", node, Put(running_agents, SingleId(1)),
                              execution_task, wf_out, 0)
         IN /\ Apply(c)
            /\ Locals(c, << 1 >>, << "running" >>, << "run" >>, NoPend)
            /\ obs' = ObsEnd(c, obs)
    /\ UNCHANGED << has_state, lock, runVars, steps, cancel_req, acts, planned,
                    whook, handles, released, ctlVars >>
    /\ UNCHANGED << sessVars, run2 >>

\* The single worker's run() returned a history or raised; the finally
\* removes it from the registry.
WfSingleRun ==
    /\ wpc = "s_run"
    /\ ~cancel_req
    /\ \E r \in {"ok", "raise"} :
         LET c == SingleResult(st, r, Without(running_agents, SingleId(1)))
         IN /\ Apply(c)
            /\ Locals(c, agents, << r >>, wctl, pend)
            /\ obs' = ObsEnd(c, [obs EXCEPT !.raised =
                                               IF r = "raise" THEN {1} ELSE {}])
    /\ UNCHANGED << has_state, lock, runVars, steps, cancel_req, acts, planned,
                    whook, handles, released, ctlVars >>
    /\ UNCHANGED << sessVars, run2 >>

\* ----------------------------------------------------- parallel dispatcher
\* The elements of a set of task indexes in ascending order
RECURSIVE Asc(_)
Asc(S) ==
    IF S = {} THEN << >>
    ELSE LET m == CHOOSE x \in S : \A y \in S : x <= y
         IN << m >> \o Asc(S \ {m})

\* self._running_agents[agent_id] = agent for each created worker, in order
RECURSIVE PutAll(_, _)
PutAll(reg, ids) ==
    IF ids = << >> THEN reg ELSE PutAll(Put(reg, Head(ids)), Tail(ids))

\* execute_parallel_browser_tasks, "Process results": the loop runs over
\* zip(agents, histories), and position j of it is reported under
\* pending_tasks[j] and agent id agent-j.
ParResultAt(tasks, ags, ws, j) ==
    TaskResult(<< "agent", j >>, tasks[j].desc, ws[j] = "ok",
               IF ws[j] = "raise" THEN ExcText("worker", ags[j]) ELSE NoErr)

ParResults(tasks, ags, ws) ==
    IF \E j \in 1..Len(ags) : ~TaskFieldValid(tasks[j])
    THEN [kind |-> "exc", results |-> << >>,
          e |-> ExcText("validation",
                        CHOOSE j \in 1..Len(ags) :
                            /\ ~TaskFieldValid(tasks[j])
                            /\ \A k \in 1..(j - 1) : TaskFieldValid(tasks[k]))]
    ELSE [kind |-> "results",
          results |-> [j \in 1..Len(ags) |-> ParResultAt(tasks, ags, ws, j)],
          e |-> NoErr]

\* A descriptor that is a list names its target; its handle is not released.
NeedsUnregister(d) == d.shape # "pair"

\* execute_parallel_browser_tasks, finally: the loop over bu_agent_ids from
\* index i on, up to its next await (unregister_agent) or its end, where the
\* try block's return value or exception p takes over.
RECURSIVE Cleanup(_, _, _, _)
Cleanup(i, s, reg, p) ==
    IF i > Len(s.browser_tasks)
    THEN CASE p.kind = "results" -> DispatchReturn(s, p.results, reg)
           [] p.kind = "exc" -> DispatchFailed(s, p.e, reg)
           [] OTHER -> End("cancelled", s, reg)
    ELSE IF NeedsUnregister(s.browser_tasks[i])
    THEN Cont(s, "p_cleanup", node, reg, execution_task, wf_out, i)
    ELSE Cleanup(i + 1, s, Without(reg, ParallelId(i)), p)

\* The handles were acquired (gather over register_agent), or one
\* acquisition raised; then a worker is created and registered per task
\* (a construction that raises is logged and skipped) and all are started.
WfParRegistered ==
    /\ wpc = "p_register"
    /\ ~cancel_req
    /\ LET n == Len(st.browser_tasks) IN
       \E f \in 0..n, C \in SUBSET (1..n) :
         LET reg == PutAll(running_agents,
                           [j \in 1..Cardinality(C) |-> ParallelId(Asc(C)[j])])
             p == IF C = {} THEN ParResults(st.browser_tasks, << >>, << >>)
                  ELSE NoPend
             c == IF f # 0
                  THEN DispatchFailed(st, ExcText("register", f), running_agents)
                  ELSE IF C = {} THEN Cleanup(1, st, reg, p)
                  ELSE Cont(st, "p_run", node, reg, execution_task, wf_out, 0)
         IN /\ f # 0 => C = {}
            /\ handles' = handles \cup { ParallelId(i) : i \in (1..n) \ {f} }
            /\ Apply(c)
            /\ Locals(c, Asc(C), [j \in 1..Cardinality(C) |-> "running"],
                      [j \in 1..Cardinality(C) |-> "run"], p)
            /\ obs' = ObsEnd(c, obs)
    /\ UNCHANGED << has_state, lock, runVars, steps, cancel_req, acts, planned,
                    whook, released, ctlVars >>
    /\ UNCHANGED << sessVars, run2 >>

\* One worker of the parallel dispatch finishes its run().
WorkerDone ==
    /\ wpc = "p_run"
    /\ \E j \in DOMAIN wstat, r \in {"ok", "raise"} :
         /\ wstat[j] = "running"
         /\ wstat' = [wstat EXCEPT ![j] = r]
         /\ obs' = [obs EXCEPT !.raised = IF r = "raise" THEN @ \cup {agents[j]} ELSE @]
    /\ UNCHANGED << engineVars, runVars, wfVars, agents, wctl, whook, handles,
                    released, clean_idx, pend, ctlVars >>
    /\ UNCHANGED << sessVars, run2 >>

\* asyncio.gather(..., return_exceptions=True) returned: the results are
\* built and the finally starts.
WfParGathered ==
    /\ wpc = "p_run"
    /\ ~cancel_req
    /\ \A j \in DOMAIN wstat : wstat[j] # "running"
    /\ LET p == ParResults(st.browser_tasks, agents, wstat)
           c == Cleanup(1, st, running_agents, p)
       IN /\ Apply(c)
          /\ Locals(c, agents, wstat, wctl, p)
          /\ obs' = ObsEnd(c, obs)
    /\ UNCHANGED << has_state, lock, runVars, steps, cancel_req, acts, planned,
                    whook, handles, released, ctlVars >>
    /\ UNCHANGED << sessVars, run2 >>

\* unregister_agent(agent_id, close_tabs=True) of the finally returned (the
\* id is then popped from the registry) or raised (the loop is left).
WfParCleanup ==
    /\ wpc = "p_cleanup"
    /\ ~cancel_req
    /\ \E r \in {"ok", "raise"} :
         LET c == IF r = "ok"
                  THEN Cleanup(clean_idx + 1, st,
                               Without(running_agents, ParallelId(clean_idx)), pend)
                  ELSE DispatchFailed(st, ExcText("unregister", clean_idx),
                                      running_agents)
         IN /\ released' = IF r = "ok" THEN released \cup {ParallelId(clean_idx)}
                           ELSE released
            /\ handles' = IF r = "ok" THEN handles \ {ParallelId(clean_idx)}
                          ELSE handles
            /\ Apply(c)
            /\ Locals(c, agents, wstat, wctl, pend)
            /\ obs' = ObsEnd(c, obs)
    /\ UNCHANGED << has_state, lock, runVars, steps, cancel_req, acts, planned,
                    whook, ctlVars >>
    /\ UNCHANGED << sessVars, run2 >>

\* ------------------------------------------------------------ cancellation
CancelPend == [kind |-> "cancel", results |-> << >>, e |-> NoErr]

\* Where the CancelledError thrown into the workflow task at its current
\* await takes it.  `except Exception` lets it pass; the finally blocks run.
CancelCont ==
    CASE wpc = "s_run" ->
            End("cancelled", st, Without(running_agents, SingleId(1)))
      [] wpc = "p_run" -> Cleanup(1, st, running_agents, CancelPend)
      [] wpc = "wf_finally" ->
            Cont(st, "done", node, running_agents, "cancelled", "none", 0)
      [] OTHER -> End("cancelled", st, running_agents)

\* The pending CancelledError is delivered to the workflow task.
WfCancelled ==
    /\ cancel_req
    /\ wpc \notin {"none", "done"}
    /\ cancel_req' = FALSE
    /\ Apply(CancelCont)
    /\ Locals(CancelCont, agents,
              [j \in DOMAIN wstat |->
                 IF wstat[j] = "running" THEN "cancelled" ELSE wstat[j]],
              wctl, IF wpc = "p_run" THEN CancelPend ELSE pend)
    /\ obs' = IF wpc \in {"s_focus", "s_run", "p_register", "p_run", "p_cleanup"}
              THEN ObsEnd(CancelCont, obs) ELSE obs
    /\ UNCHANGED << has_state, lock, runVars, steps, acts, planned, whook,
                    handles, released, ctlVars >>
    /\ UNCHANGED << sessVars, run2 >>

\* _execute_workflow, finally: the control lock became free.
WfFinallyLock ==
    /\ wpc = "wf_finally"
    /\ ~cancel_req
    /\ lock = "free"
    /\ Apply(Cont(st, "done", node, << >>, wf_out, "none", 0))
    /\ UNCHANGED << has_state, lock, runVars, steps, cancel_req, acts, planned,
                    agents, wstat, wctl, whook, handles, released, pend, ctlVars,
                    obs >>
    /\ UNCHANGED << sessVars, run2 >>

\* ------------------------------------------------------------------ run()
\* run(), finally, under the control lock: _current_state, _execution_task
\* and the registry are cleared; run() returns resp.  The state object and
\* the finished workflow are no longer referenced.
RunCleared_KeepsState(resp) ==
    /\ has_state' = has_state
    /\ execution_task' = "none"
    /\ running_agents' = << >>
    /\ rpc' = "idle"
    /\ last_response' = resp
    /\ st' = InitialState
    /\ wpc' = "none"
    /\ node' = "vibesurf_agent"
    /\ steps' = 0
    /\ acts' = << >>
    /\ planned' = 0
    /\ wf_out' = "none"
    /\ obs' = ObsInit

RunCleared(resp) ==
    /\ has_state' = FALSE
    /\ execution_task' = "none"
    /\ running_agents' = << >>
    /\ rpc' = "idle"
    /\ last_response' = resp
    /\ st' = InitialState
    /\ wpc' = "none"
    /\ node' = "vibesurf_agent"
    /\ steps' = 0
    /\ acts' = << >>
    /\ planned' = 0
    /\ wf_out' = "none"
    /\ obs' = ObsInit

\* run(), finally: the histories are saved, then the engine is cleared under
\* the control lock, waiting for the lock when it is held.
RunFinally(resp) ==
    IF lock = "free"
    THEN /\ RunCleared(resp)
         /\ run_in' = run_in
    ELSE /\ rpc' = "final_lock"
         /\ run_in' = [run_in EXCEPT !.resp = resp]
         /\ UNCHANGED << has_state, execution_task, running_agents, wpc,
                         last_response, st, node, steps, acts, planned, wf_out,
                         obs >>

\* run(): a fresh state becomes the current one, the registry is cleared and
\* the workflow task is created.
RunSetState ==
    /\ has_state' = TRUE
    /\ st' = InitialState
    /\ running_agents' = << >>
    /\ execution_task' = "active"
    /\ wpc' = "gate"
    /\ node' = "vibesurf_agent"
    /\ steps' = 0
    /\ planned' = 0
    /\ cancel_req' = FALSE
    /\ wf_out' = "none"
    /\ acts' = << >>
    /\ rpc' = "await_task"
    /\ obs' = ObsInit
    /\ UNCHANGED << lock, last_response, dispVars, ctlVars >>

\* run(): the message history the run starts from (the system prompt opens
\* an empty history) with the user's request appended
WithRequest(hist) ==
    (IF hist = << >> THEN << "system" >> ELSE hist) \o << "request" >>

\* run(task, upload_files, session_id) is called.  A session id other than
\* the current one loads the files of that session.  upload_files=None
\* makes process_upload_files raise, which run() answers with its failure
\* text (its finally saves the history and the log as they are).
RunStart ==
    /\ rpc = "idle"
    /\ nruns < MaxRuns
    /\ nruns' = nruns + 1
    /\ \E up \in {"none", "list"}, arg \in SessionArgs :
         LET sid == SessionOf(arg)
             hist == IF sid # cur_session_id
                     THEN load_message_history(sid) ELSE message_history
             log == IF sid # cur_session_id
                    THEN load_activity_logs(sid) ELSE activity_logs
         IN  /\ cur_session_id' = sid
             /\ run2' = run2
             /\ IF up = "none"
                THEN /\ message_history' = hist
                     /\ activity_logs' = log
                     /\ store' = Save(sid, hist, log)
                     /\ RunFinally("failed")
                     /\ UNCHANGED << cancel_req, lock, dispVars, ctlVars >>
                ELSE /\ message_history' = WithRequest(hist)
                     /\ activity_logs' = Append(log, LogEntry("user", "request"))
                     /\ store' = store
                     /\ IF lock = "free"
                        THEN /\ RunSetState
                             /\ run_in' = [upload |-> up, resp |-> "none"]
                        ELSE /\ rpc' = "start_lock"
                             /\ run_in' = [upload |-> up, resp |-> "none"]
                             /\ UNCHANGED << engineVars, last_response, wfVars,
                                             dispVars, ctlVars, obs >>

\* run(): the control lock became free for `self._current_state = initial_state`.
RunStartLock ==
    /\ rpc = "start_lock"
    /\ lock = "free"
    /\ RunSetState
    /\ UNCHANGED << run_in, nruns >>
    /\ UNCHANGED << sessVars, run2 >>

\* RunResponse without the `except asyncio.CancelledError` branch
RunResponse_NoCancelBranch(etask, s) ==
    CASE etask = "ok" -> IF s.final_response.kind # "none"
                         THEN "final" ELSE "completed_noresult"
      [] OTHER -> "failed"

\* _get_result and the except branches of run(): the text run() returns
RunResponse(etask, s) ==
    CASE etask = "ok" -> IF s.final_response.kind # "none"
                         THEN "final" ELSE "completed_noresult"
      [] etask = "cancelled" -> "cancelled"
      [] OTHER -> "failed"

\* `await self._execution_task` returned or raised.  The entries of the
\* except and finally branches ('cancelled', 'error', 'done') are for the
\* local list agent_activity_logs, and only `if agent_activity_logs`: the
\* list is created empty and never filled, so nothing is appended, and
\* self.activity_logs is saved as the workflow left it.
RunTaskDone ==
    /\ rpc = "await_task"
    /\ execution_task \in {"ok", "exc", "cancelled"}
    /\ RunFinally(RunResponse(execution_task, st))
    /\ store' = Save(cur_session_id, message_history, activity_logs)
    /\ UNCHANGED << lock, nruns, cancel_req, dispVars, ctlVars, message_history,
                    activity_logs, cur_session_id, run2 >>

\* run(), finally: the control lock became free.
RunFinalLock ==
    /\ rpc = "final_lock"
    /\ lock = "free"
    /\ RunCleared(run_in.resp)
    /\ UNCHANGED << lock, run_in, nruns, cancel_req, dispVars, ctlVars >>
    /\ UNCHANGED << sessVars, run2 >>

\* ------------------------------------------------------ control operations
\* The ids the controller passes to pause_agent / resume_agent (the id is in
\* the registry only while a parallel dispatch has its first worker there)
CtlIds == { ParallelId(1) }

CtlOp(op, id) == [op |-> op, id |-> id]

CtlOps ==
    { CtlOp(o, << "none", 0 >>) : o \in {"stop", "pause", "resume"} } \cup
    { CtlOp(o, i) : o \in {"pause_agent", "resume_agent"}, i \in CtlIds }

\* The registry id of the worker at position j of the dispatcher's agents
IdOf(j) ==
    IF DispatchPath(st.browser_tasks) = "single"
    THEN SingleId(agents[j]) ELSE ParallelId(agents[j])

\* The position of the running worker a registry id refers to (0: the
\* worker behind the id is not one of the dispatch in progress)
WorkerPos(id) ==
    IF \E j \in DOMAIN agents : IdOf(j) = id
    THEN CHOOSE j \in DOMAIN agents : IdOf(j) = id
    ELSE 0

\* hasattr(agent, 'pause' / 'resume' / 'stop')
HasHook(id) == whook

\* What a hook that returns does to the worker
HookEffect(op, w) ==
    CASE op = "stop" -> "stopped"
      [] op \in {"pause", "pause_agent"} -> IF w = "run" THEN "paused" ELSE w
      [] OTHER -> IF w = "paused" THEN "run" ELSE w

\* _stop_all_agents / _pause_all_agents / _resume_all_agents: the loop
\* `for agent_id, agent in self._running_agents.items()` from k consumed items
\* on, up to its next awaited hook, its end, or the RuntimeError the iterator
\* raises when the registry changed size since the iterator was created.
RECURSIVE PassFrom(_, _)
PassFrom(k, size) ==
    IF Len(running_agents) # size THEN [v |-> "error", idx |-> k]
    ELSE IF k >= size THEN [v |-> "end", idx |-> k]
    ELSE IF HasHook(running_agents[k + 1]) THEN [v |-> "hook", idx |-> k + 1]
    ELSE PassFrom(k + 1, size)

\* ResumeState that also takes back a stop
ResumeState_ClearsStopped(s) ==
    [s EXCEPT !.paused = FALSE, !.should_pause = FALSE, !.stopped = FALSE]

\* resume(): the flags it clears
ResumeState(s) == [s EXCEPT !.paused = FALSE, !.should_pause = FALSE]

\* pause(): the flag it sets
PauseState(s) == [s EXCEPT !.should_pause = TRUE]

\* stop(): the flags it sets
StopState(s) == [s EXCEPT !.should_stop = TRUE, !.stopped = TRUE]

\* TrySites with the hook of pause_agent / resume_agent awaited outside the try
TrySites_HookOutside(op) ==
    CASE op = "stop" -> {"iter", "task"}
      [] op \in {"pause", "resume"} -> {"iter"}
      [] OTHER -> {}

\* The places where the body of operation op can fail with an exception
\* that reaches its `except Exception` branch: the RuntimeError of the
\* registry iterator ("iter"), the exception of the awaited run task
\* ("task"), the hook awaited by pause_agent / resume_agent ("hook").  (A
\* hook that raises inside a pass is logged by the pass and is no failure
\* of the operation.)
TrySites(op) ==
    CASE op = "stop" -> {"iter", "task"}
      [] op \in {"pause", "resume"} -> {"iter"}
      [] OTHER -> {"hook"}

\* What the caller of op gets when its body ended at `site` ("none": it
\* reached its return): the ControlResult of the return statement or of
\* the except branch; kind "raised" stands for an exception that no except
\* branch of op answers.
CtlAnswer(op, site) ==
    [op |-> op,
     success |-> site = "none",
     kind |-> IF site = "none" THEN "ok"
              ELSE IF site \in TrySites(op) THEN site
              ELSE "raised"]

\* Operation op leaves at `site`; the control lock is released.
\* ob is the observation record to continue from.
CtlReturn(op, site, ob) ==
    /\ cpc' = "idle"
    /\ lock' = "free"
    /\ cop' = NoOp
    /\ pass_idx' = 0
    /\ pass_size' = 0
    /\ ctl_result' = CtlAnswer(op, site)
    /\ obs' = IF op = "stop" /\ ob.stopw = "called"
              THEN [ob EXCEPT !.stopw = "ret",
                              !.snap_reg = (running_agents = << >>),
                              !.snap_status = GetStatus,
                              !.rnp = FALSE]
              ELSE [ob EXCEPT !.rnp = FALSE]

\* Operation o is suspended at the await pc, holding the control lock.
CtlSuspend(pc, o, k, size, ob) ==
    /\ cpc' = pc
    /\ lock' = "ctl"
    /\ cop' = o
    /\ pass_idx' = k
    /\ pass_size' = size
    /\ obs' = ob
    /\ UNCHANGED ctl_result

\* stop(): after the pass over the registry, the run task is cancelled if it
\* is still active and stop() waits for it.
StopCancelPhase(o, ob) ==
    IF execution_task = "active"
    THEN /\ cancel_req' = TRUE
         /\ CtlSuspend("wait_cancel", o, 0, 0, [ob EXCEPT !.sc = TRUE])
    ELSE /\ CtlReturn("stop", "none", ob)
         /\ UNCHANGED cancel_req

\* The hook of operation op is called on the worker behind registry id:
\* unless it raises first, the worker takes the request.
HookCall(op, id, raises) ==
    IF raises \/ WorkerPos(id) = 0 THEN wctl
    ELSE [wctl EXCEPT ![WorkerPos(id)] = HookEffect(op, wctl[WorkerPos(id)])]

\* The pass of operation o reached verdict p (PassFrom) on an iterator
\* created at registry size `size`.
PassCont(o, p, size, ob) ==
    CASE p.v = "hook" ->
            /\ CtlSuspend("hook", o, p.idx, size, ob)
            /\ \E raises \in BOOLEAN :
                 wctl' = HookCall(o.op, running_agents[p.idx], raises)
            /\ UNCHANGED cancel_req
      [] p.v = "end" /\ o.op = "stop" ->
            /\ StopCancelPhase(o, ob)
            /\ wctl' = wctl
      [] p.v = "end" /\ o.op # "stop" ->
            /\ CtlReturn(o.op, "none", ob)
            /\ UNCHANGED << cancel_req, wctl >>
      [] OTHER ->
            /\ CtlReturn(o.op, "iter", ob)
            /\ UNCHANGED << cancel_req, wctl >>

\* AgentOpCont without the lookup: the hook is called for any id
AgentOpCont_NoLookup(o, ob) ==
    IF HasHook(o.id)
    THEN /\ CtlSuspend("hook", o, 0, 0, ob)
         /\ \E raises \in BOOLEAN : wctl' = HookCall(o.op, o.id, raises)
         /\ UNCHANGED cancel_req
    ELSE /\ CtlReturn(o.op, "none", ob)
         /\ UNCHANGED << cancel_req, wctl >>

\* pause_agent / resume_agent: the lookup of the id and the hook call
AgentOpCont(o, ob) ==
    IF o.id \in Range(running_agents) /\ HasHook(o.id)
    THEN /\ CtlSuspend("hook", o, 0, 0, ob)
         /\ \E raises \in BOOLEAN : wctl' = HookCall(o.op, o.id, raises)
         /\ UNCHANGED cancel_req
    ELSE /\ CtlReturn(o.op, "none", ob)
         /\ UNCHANGED << cancel_req, wctl >>

ObsCtl(o) ==
    [obs EXCEPT
       !.stopw = IF o.op = "stop" /\ running_agents # << >>
                    /\ \E j \in DOMAIN wstat : wstat[j] = "running"
                 THEN "called" ELSE @,
       !.sip = @ \/ (o.op = "stop" /\ has_state /\ wpc = "pause_sleep"),
       !.rnp = o.op = "resume"
                 /\ (has_state => (~st.paused /\ ~st.should_pause)),
       !.tmo = FALSE]

\* A control operation is called and takes the control lock; it runs up to
\* its first await.
CtlBegin ==
    /\ cpc = "idle"
    /\ lock = "free"
    /\ nctl < MaxCtl
    /\ run2 = "none"
    /\ nctl' = nctl + 1
    /\ \E o \in CtlOps :
         CASE o.op = "stop" ->
                /\ st' = IF has_state THEN StopState(st) ELSE st
                /\ CtlSuspend("pass_start", o, 0, 0, ObsCtl(o))
                /\ UNCHANGED << cancel_req, wctl >>
           [] o.op = "pause" ->
                /\ st' = IF has_state THEN PauseState(st) ELSE st
                /\ PassCont(o, PassFrom(0, Len(running_agents)),
                            Len(running_agents), ObsCtl(o))
           [] o.op = "resume" ->
                /\ st' = IF has_state THEN ResumeState(st) ELSE st
                /\ PassCont(o, PassFrom(0, Len(running_agents)),
                            Len(running_agents), ObsCtl(o))
           [] OTHER ->
                /\ st' = st
                /\ AgentOpCont(o, ObsCtl(o))
    /\ UNCHANGED << has_state, running_agents, execution_task, runVars, wpc, node,
                    steps, wf_out, acts, planned, agents, wstat, whook, handles,
                    released, clean_idx, pend >>
    /\ UNCHANGED << sessVars, run2 >>

\* stop(): _stop_all_agents starts under asyncio.wait_for(..., 3.0) and
\* creates its iterator over the registry.
CtlPassStart ==
    /\ cpc = "pass_start"
    /\ PassCont(cop, PassFrom(0, Len(running_agents)), Len(running_agents), obs)
    /\ UNCHANGED << has_state, st, running_agents, execution_task, runVars, wpc,
                    node, steps, wf_out, acts, planned, agents, wstat, whook,
                    handles, released, clean_idx, pend, nctl >>
    /\ UNCHANGED << sessVars, run2 >>

\* The awaited hook of a worker returns or raises (a pass logs it and goes
\* on to its next item; a single-agent operation returns).
CtlHookReturn ==
    /\ cpc = "hook"
    /\ IF cop.op \in {"pause_agent", "resume_agent"}
       THEN \E site \in {"none", "hook"} :
              /\ CtlReturn(cop.op, site, obs)
              /\ UNCHANGED << cancel_req, wctl >>
       ELSE PassCont(cop, PassFrom(pass_idx, pass_size), pass_size, obs)
    /\ UNCHANGED << has_state, st, running_agents, execution_task, runVars, wpc,
                    node, steps, wf_out, acts, planned, agents, wstat, whook,
                    handles, released, clean_idx, pend, nctl >>
    /\ UNCHANGED << sessVars, run2 >>

\* stop(): the 3.0 s of wait_for around _stop_all_agents ran out while a
\* stop hook was awaited; the pass is abandoned.
CtlPassTimeout ==
    /\ cpc = "hook"
    /\ cop.op = "stop"
    /\ StopCancelPhase(cop, [obs EXCEPT !.tmo = TRUE])
    /\ UNCHANGED << has_state, st, running_agents, execution_task, runVars, wpc,
                    node, steps, wf_out, acts, planned, dispVars, nctl >>
    /\ UNCHANGED << sessVars, run2 >>

\* stop(): the 2.0 s of wait_for around the run task ran out; wait_for
\* cancels the task once more and waits for it to end.
CtlStopWaitTimeout ==
    /\ cpc = "wait_cancel"
    /\ execution_task = "active"
    /\ ~cancel_req
    /\ cancel_req' = TRUE
    /\ cpc' = "wait_cancel2"
    /\ obs' = [obs EXCEPT !.tmo = TRUE]
    /\ UNCHANGED << engineVars, runVars, wpc, node, steps, wf_out, acts, planned,
                    dispVars, cop, pass_idx, pass_size, ctl_result, nctl >>
    /\ UNCHANGED << sessVars, run2 >>

\* stop(): the run task ended.  A task that ended cancelled (or returned)
\* lets stop() report success; an exception of the task leaves wait_for
\* and is answered by the outer except branch.
CtlStopTaskDone ==
    /\ cpc \in {"wait_cancel", "wait_cancel2"}
    /\ execution_task # "active"
    /\ CtlReturn("stop", IF execution_task = "exc" THEN "task" ELSE "none", obs)
    /\ UNCHANGED << has_state, st, running_agents, execution_task, runVars, wfVars,
                    dispVars, nctl >>
    /\ UNCHANGED << sessVars, run2 >>

\* ------------------------------------------------- a second run() call
\* run() is called (with a file list, for the current session) while the
\* first run() awaits its workflow task, and no control operation is in
\* flight: it appends its request, makes a fresh state the current one,
\* clears the registry and creates a workflow task of its own.  The second
\* workflow is followed up to its end only (it dispatches nothing), and
\* the controller issues no operation once the second call is made.
Run2Start ==
    /\ rpc = "await_task"
    /\ lock = "free"
    /\ run2 = "none"
    /\ run2' = "active"
    /\ has_state' = TRUE
    /\ running_agents' = << >>
    /\ message_history' = WithRequest(message_history)
    /\ activity_logs' = Append(activity_logs, LogEntry("user", "request"))
    /\ UNCHANGED << st, execution_task, lock, runVars, wfVars, dispVars, ctlVars,
                    cur_session_id, store, obs >>

\* The workflow task of the second run() ends; its finally clears the
\* registry under the control lock.
Wf2End ==
    /\ run2 = "active"
    /\ lock = "free"
    /\ run2' = "ended"
    /\ running_agents' = << >>
    /\ UNCHANGED << has_state, st, execution_task, lock, runVars, wfVars, dispVars,
                    ctlVars, sessVars, obs >>

\* The second run() returns: its finally saves the history and the log and
\* clears the engine under the control lock.
Run2Done ==
    /\ run2 = "ended"
    /\ lock = "free"
    /\ run2' = "returned"
    /\ store' = Save(cur_session_id, message_history, activity_logs)
    /\ has_state' = FALSE
    /\ running_agents' = << >>
    /\ UNCHANGED << st, execution_task, lock, runVars, wfVars, dispVars, ctlVars,
                    message_history, activity_logs, cur_session_id, obs >>

\* The session state self._current_state refers to
CurrentState ==
    IF ~has_state THEN "none"
    ELSE IF run2 \in {"active", "ended"} THEN "second"
    ELSE "first"

\* ------------------------------------------------------------ specification
Next ==
    \/ RunStart
    \/ RunStartLock
    \/ RunTaskDone
    \/ RunFinalLock
    \/ WfGate
    \/ WfPauseWake
    \/ WfPlanCtx
    \/ WfPlanLlm
    \/ WfPlanAct
    \/ WfReport
    \/ WfSingleFocus
    \/ WfSingleRun
    \/ WfParRegistered
    \/ WorkerDone
    \/ WfParGathered
    \/ WfParCleanup
    \/ WfCancelled
    \/ WfFinallyLock
    \/ CtlBegin
    \/ CtlPassStart
    \/ CtlHookReturn
    \/ CtlPassTimeout
    \/ CtlStopWaitTimeout
    \/ CtlStopTaskDone

Spec == Init /\ [][Next]_vars

\* The engine with a caller that does not wait for run() to return before
\* it calls run() again
NextReentry ==
    \/ Next
    \/ Run2Start
    \/ Wf2End
    \/ Run2Done

SpecReentry == Init /\ [][NextReentry]_vars

\* The steps the event loop takes by itself once they are possible: those of
\* run(), of the workflow task and of its dispatchers, and those of a control
\* operation that has been called (its awaits return, its timeouts expire).
\* Not among them: a call of run() or of a control operation, and the end
\* of a worker's run().
EngineSteps ==
    \/ RunStartLock
    \/ RunTaskDone
    \/ RunFinalLock
    \/ WfGate
    \/ WfPauseWake
    \/ WfPlanCtx
    \/ WfPlanLlm
    \/ WfPlanAct
    \/ WfReport
    \/ WfSingleFocus
    \/ WfParRegistered
    \/ WfParGathered
    \/ WfParCleanup
    \/ WfCancelled
    \/ WfFinallyLock

ControlSteps ==
    \/ CtlPassStart
    \/ CtlHookReturn
    \/ CtlPassTimeout
    \/ CtlStopWaitTimeout
    \/ CtlStopTaskDone

\* The engine on an event loop that runs every coroutine that is ready
SpecLive == Init /\ [][Next]_vars /\ WF_vars(EngineSteps) /\ WF_vars(ControlSteps)

\* ------------------------------------------------------ get_activity_logs
\* An Optional[int] argument: << >> is None, << n >> is the integer n.
Indices == {<< >>} \cup { << n >> : n \in 0..MaxIndex }

\* `session_id in self.activity_logs` compares the id (a str or None) with
\* the entries of the list, which are dicts: no entry is equal to it.
EntryEquals(e, sid) == FALSE

Returned(v) == [kind |-> "returned", value |-> v]
Raised(e) == [kind |-> "raised", value |-> e]

\* get_activity_logs(session_id, message_index) on the engine's activity
\* log `log` (a list) and current session `cur`.  The membership test is
\* made on the list; its warning formats `self.activity_logs.keys()`, which
\* a list does not have; past it the list would be indexed by the id.
get_activity_logs(log, cur, session_id, message_index) ==
    LET sid == IF session_id = "none" THEN cur ELSE session_id IN
    IF ~(\E i \in DOMAIN log : EntryEquals(log[i], sid))
    THEN Raised("AttributeError")
    ELSE Raised("TypeError")

\* The engine with no controller: run() alone, with supersteps enough for
\* a second dispatch after the first
NextRounds ==
    \/ RunStart
    \/ RunTaskDone
    \/ WfGateLong
    \/ WfPlanCtx
    \/ WfPlanLlm
    \/ WfPlanAct
    \/ WfReport
    \/ WfSingleFocus
    \/ WfSingleRun
    \/ WfParRegistered
    \/ WorkerDone
    \/ WfParGathered
    \/ WfParCleanup

SpecRounds == Init /\ [][NextRounds]_vars

\* ------------------------------------------------------------- properties
\* The results the last dispatch added to the session state
NewResults == SubSeq(st.browser_results, obs.base + 1, Len(st.browser_results))

\* C1: when a stop() that was called with workers registered and running
\* returns, the registry is empty and get_status() answers "stopped".
C1_StopEmptiesRegistry ==
    obs.stopw = "ret" => (obs.snap_reg /\ obs.snap_status = "stopped")

\* C2: once a finish action (task_done) has been processed, the planner is
\* not invoked again in that run.
C2_FinishEndsLoop ==
    (has_state /\ obs.fin > 0) => planned = obs.fin

\* C3: once the gate has reported stopped, the workflow is over: no further
\* superstep is scheduled.
C3_GateStopExitsLoop ==
    (has_state /\ obs.gstop) => wpc \in {"done", "wf_finally"}

\* C4: the stopped flag is monotonic within a run: no step of any control
\* operation, of the gate or of a node takes it from true back to false.
C4_StoppedMonotonic ==
    [][(has_state /\ has_state' /\ st.stopped) => st'.stopped]_vars

\* a resume() that followed a stop() has returned and the session is still
\* the stopped one
C4_Witness ==
    /\ has_state
    /\ st.stopped
    /\ cpc = "idle"
    /\ nctl = 2
    /\ ctl_result.op = "resume"

\* C5: after pause() and resume() with no stop(), and a planner that has
\* returned its finish action, the workflow ends normally and not with an
\* exception.
C5_ResumedRunCompletes ==
    (has_state /\ obs.held /\ obs.fin > 0 /\ ~st.stopped
       /\ execution_task # "active")
        => execution_task = "ok"

\* C6: when stop() set its flags while the gate was in its pause wait, the
\* session status is "stopped" from then on, and the gate leaves the pause
\* wait without starting the step function.
C6_PausedSessionStoppable ==
    [][(obs.sip /\ has_state')
         => /\ GetStatus' = "stopped"
            /\ (wpc = "pause_sleep" /\ wpc' # "pause_sleep")
                 => wpc' \in {"gate", "done", "wf_finally"}]_vars

\* the gate woke up in its pause wait after such a stop() and reported
\* stopped
C6_Witness ==
    /\ has_state
    /\ obs.sip
    /\ obs.gstop
    /\ wpc = "gate"
    /\ GetStatus = "stopped"

\* C7: a dispatch of n descriptors that returned has added exactly n
\* results, and result i describes descriptor i.
C7_ResultsMatchDescriptors ==
    (has_state /\ obs.dend = "returned")
        => /\ Len(NewResults) = Len(st.browser_tasks)
           /\ \A i \in 1..Len(NewResults) : NewResults[i].task = i

\* C8: after a parallel dispatch has returned, every worker that raised has
\* a failed result of its own, under its own descriptor, whose error is the
\* text of its exception.
C8_RaisedWorkerRecorded ==
    (has_state /\ obs.disp = "parallel" /\ obs.dend = "returned")
        => \A i \in obs.raised :
             \E k \in 1..Len(NewResults) :
                /\ NewResults[k].task = i
                /\ ~NewResults[k].success
                /\ NewResults[k].error = ExcText("worker", i)

\* C9: after a parallel dispatch has ended, whether it returned or was
\* cancelled, none of the ids of its tasks is in the registry.
C9_ParallelIdsRemoved ==
    (has_state /\ obs.disp = "parallel" /\ obs.dend # "none")
        => \A i \in 1..Len(st.browser_tasks) :
             ParallelId(i) \notin Range(running_agents)

\* C10: the dispatcher is on its sequential path only with a list of one
\* descriptor and on its parallel path only with a list of two or more; on
\* the parallel path every task has a handle of its own once the workers run.
C10_StrategyByCount ==
    /\ wpc \in {"s_focus", "s_run"} =>
          /\ Len(st.browser_tasks) = 1
          /\ obs.disp = "single"
    /\ wpc \in {"p_register", "p_run", "p_cleanup"} =>
          /\ Len(st.browser_tasks) >= 2
          /\ obs.disp = "parallel"
    /\ wpc = "p_run" =>
          \A i \in 1..Len(st.browser_tasks) : ParallelId(i) \in handles
    /\ wpc = "s_run" => running_agents = << SingleId(1) >>

\* two descriptors are being worked on in parallel, each with its handle
C10_Witness ==
    /\ wpc = "p_run"
    /\ Len(st.browser_tasks) = 2
    /\ Len(agents) = 2
    /\ Cardinality(handles) = 2

\* C11: once an exception of the planner or of an action has been turned
\* into the failed completion (completion flag set, error-carrying final
\* response), the planner is not invoked again in that run.
C11_PlannerErrorEndsLoop ==
    [][(/\ has_state /\ has_state'
        /\ st.is_complete
        /\ st.final_response = FailedResponse)
          => planned' = planned]_vars

\* C12: a session whose completion flag is set and that is neither stopped
\* nor paused is reported by get_status() as completed.
C12_CompleteReported ==
    (/\ has_state
     /\ st.is_complete
     /\ ~st.stopped /\ ~st.paused /\ ~st.should_pause)
        => GetStatus \in {"complete", "completed"}
\* The statuses of the entries of an activity log
Statuses(log) == { log[i].agent_status : i \in DOMAIN log }

\* Sequence a is a prefix of sequence b
IsPrefix(a, b) == Len(a) <= Len(b) /\ SubSeq(b, 1, Len(a)) = a

\* The four control flags of a session state
Flags(s) == << s.paused, s.stopped, s.should_pause, s.should_stop >>

\* The step is one of a coroutine that holds the control lock while it
\* takes it: a control operation (all of its body is under the lock), the
\* `async with` blocks of run() that set and clear the current state, or
\* the finally of the workflow task that clears the registry.
StepUnderLock ==
    \/ nctl' # nctl
    \/ cpc' # cpc
    \/ pass_idx' # pass_idx
    \/ has_state' # has_state
    \/ (wpc' = "done" /\ wpc # "done")

\* The operation the control call of this step began
BegunOp == IF cpc' = "idle" THEN ctl_result'.op ELSE cop'.op

\* C13: a resume() called when the session is not paused, or when no session
\* is active, leaves the flags, the registry and the step state as they
\* were and returns success (at once, or when its pass over the registry is
\* over); resuming twice clears no more than resuming once.
C13_ResumeNotPausedNoOp ==
    [][/\ (/\ nctl' = nctl + 1
           /\ BegunOp = "resume"
           /\ has_state => (~st.paused /\ ~st.should_pause))
         => /\ st' = st
            /\ running_agents' = running_agents
            /\ << wpc, node, steps >>' = << wpc, node, steps >>
            /\ ResumeState(ResumeState(st)) = ResumeState(st)
            /\ cpc' = "idle" => ctl_result'.success
       /\ (obs.rnp /\ cpc' = "idle") => ctl_result'.success]_vars
\* C14: pause_agent(id) and resume_agent(id) called while no id the
\* controller can pass is in the registry return at once with success,
\* await no hook, and leave the registry, the workers and the session state
\* (the four control flags among it) unchanged.
C14_UnknownAgentNoOp ==
    [][(/\ nctl' = nctl + 1
        /\ BegunOp \in {"pause_agent", "resume_agent"}
        /\ \A i \in CtlIds : i \notin Range(running_agents))
          => /\ cpc' = "idle"
             /\ ctl_result'.success
             /\ ctl_result'.kind = "ok"
             /\ wctl' = wctl
             /\ running_agents' = running_agents
             /\ st' = st]_vars

\* pause_agent has returned success in a run that has dispatched nothing
\* yet (its registry was empty all along), with workers that have hooks
C14_Witness ==
    /\ has_state
    /\ whook
    /\ obs.disp = "none"
    /\ running_agents = << >>
    /\ cpc = "idle"
    /\ ctl_result = CtlAnswer("pause_agent", "none")
\* C15: once run() has returned, the activity log of the session, in memory
\* and as saved, holds an entry for the outcome that was returned: a
\* 'cancelled' entry after the cancellation text, an 'error' entry after the
\* failure text, a 'done' entry after a final response.
C15_TerminalEntryLogged ==
    (rpc = "idle" /\ nruns > 0)
        => LET want == CASE last_response = "cancelled" -> "cancelled"
                         [] last_response = "failed" -> "error"
                         [] OTHER -> "done"
           IN  /\ last_response # "none"
               /\ want \in Statuses(activity_logs)
               /\ want \in Statuses(load_activity_logs(cur_session_id))
\* C16: a stop() in which the wait for the workers' stop hooks or the wait
\* for the cancelled run task ran out of time returns success=false, and
\* the session is marked stopped.
C16_StopTimeoutReported ==
    (cpc = "idle" /\ ctl_result.op = "stop" /\ obs.tmo)
        => /\ ~ctl_result.success
           /\ has_state => st.stopped
\* C17: whatever fails inside a control operation (the registry iterator,
\* the awaited run task, a hook that raises), the caller gets a
\* ControlResult and no exception; the result says success=false exactly
\* when the operation failed.
C17_ControlFailuresAnswered ==
    /\ ctl_result.kind # "raised"
    /\ ctl_result.kind \in {"hook", "iter", "task"} => ~ctl_result.success
    /\ ctl_result.kind = "ok" => ctl_result.success
    /\ ctl_result.op \in {"none", "stop", "pause", "resume", "pause_agent",
                          "resume_agent"}

\* resume_agent has returned success=false for a hook that raised
C17_Witness ==
    /\ ctl_result = CtlAnswer("resume_agent", "hook")
    /\ ~ctl_result.success
    /\ cpc = "idle"
\* C19: every step that changes one of the four control flags or the
\* registry is taken by a coroutine that holds the control lock.
C19_AccessUnderLock ==
    [][(\/ running_agents' # running_agents
        \/ Flags(st)' # Flags(st))
          => StepUnderLock]_vars
C18_SingleRunInFlight ==
    [][(run2 = "none" /\ run2' # "none")
          => /\ ~(run2' = "active" /\ execution_task' = "active")
             /\ CurrentState' = CurrentState
             /\ running_agents' = running_agents]_vars
C22_FinalResponseSuggestions ==
    /\ \A k \in 0..MaxFollow :
         LET r == FormatFinalResponse(k)
             n == IF k < 3 THEN k ELSE 3
         IN  /\ r.kind = "done"
             /\ Len(r.sugg) = n
             /\ \A j \in 1..n : r.sugg[j] = j
    /\ (has_state /\ st.final_response.kind = "done")
         => /\ st.is_complete
            /\ Len(st.final_response.sugg) <= 3
            /\ \E k \in 0..MaxFollow : st.final_response = FormatFinalResponse(k)

\* the planner finished with more suggestions than are listed: the final
\* response carries three
C22_Witness ==
    /\ has_state
    /\ st.is_complete
    /\ st.final_response.kind = "done"
    /\ st.final_response.sugg = << 1, 2, 3 >>
    /\ MaxFollow > 3
AcquireFailed ==
    /\ wpc = "p_register"
    /\ wpc' # "p_register"
    /\ has_state'
    /\ \E i \in DOMAIN st'.browser_results :
         st'.browser_results[i].error[1] = "register"

\* C24: when acquiring the isolated handle of one task of a parallel
\* dispatch fails, every task of the dispatch gets a failed result, every
\* handle acquired for a sibling task is released again, and no id of the
\* dispatch is in the registry.
C24_AcquireFailureCleansSiblings ==
    [][AcquireFailed =>
         /\ \A i \in 1..Len(st.browser_tasks) :
              ~st'.browser_results[Len(st.browser_results) + i].success
         /\ handles' \subseteq handles
         /\ \A i \in 1..Len(st.browser_tasks) :
              ParallelId(i) \notin Range(running_agents')]_vars
\* The single worker of the sequential dispatcher failed in this step: its
\* construction raised, or its run() raised.
SingleWorkerFailed ==
    \/ /\ wpc = "s_focus"
       /\ wpc' # "s_focus"
       /\ Len(st'.browser_results) > Len(st.browser_results)
       /\ st'.browser_results[Len(st'.browser_results)].error[1] # "focus"
    \/ /\ wpc = "s_run"
       /\ wpc' # "s_run"
       /\ obs'.raised = {1}

\* C25: when the single worker of the sequential path fails while it is
\* created or while it runs, the dispatch adds exactly one result, with
\* success false and the text of the worker's exception as error, the
\* workflow goes on with the planning step, and the worker's id is not in
\* the registry.
C25_SingleFailureReported ==
    [][SingleWorkerFailed =>
         /\ Len(st'.browser_results) = Len(st.browser_results) + 1
         /\ ~st'.browser_results[Len(st'.browser_results)].success
         /\ st'.browser_results[Len(st'.browser_results)].error
              \in {ExcText("construct", 1), ExcText("worker", 1)}
         /\ wpc' = "gate"
         /\ st'.current_step = "vibesurf_agent"
         /\ SingleId(1) \notin Range(running_agents')]_vars
\* An invocation of control_aware_node returns in this step: on entry
\* (skipped, stopped, or the step function started) or on waking up in the
\* pause wait.
GateReturned ==
    /\ \/ wpc = "gate" /\ steps' = steps + 1
       \/ wpc = "pause_sleep" /\ ~cancel_req
    /\ wpc' # "pause_sleep"
    /\ has_state'

\* C26: when an invocation of the gate returns, no request flag is set whose
\* level state has been reached: should_stop is false if stopped is true,
\* and should_pause is false if paused is true.
C26_RequestFlagsConsumed ==
    [][GateReturned =>
         /\ st'.stopped => ~st'.should_stop
         /\ st'.paused => ~st'.should_pause]_vars
\* The gate is entered for a step (a superstep of the graph begins).
GateInvoked == wpc = "gate" /\ steps' = steps + 1

\* The gate hands over to the step function in this step: on entry or on
\* waking up in the pause wait.  An empty dispatch is over within the step.
StepStarted ==
    /\ \/ GateInvoked
       \/ wpc = "pause_sleep" /\ ~cancel_req
    /\ \/ wpc' \in {"plan_ctx", "r_gen", "s_focus", "p_register"}
       \/ /\ node = "browser_task_execution"
          /\ Len(st.browser_tasks) = 0
          /\ obs.dend # "returned"
          /\ obs'.dend = "returned"

\* C27: the gate starts a step function only when stopped, should_stop,
\* paused and should_pause are all false; a gate entered with stopped set
\* returns the state as it was, no field modified, and starts no step.
C27_StepOnlyWhenClear ==
    [][/\ StepStarted =>
            /\ Flags(st) = << FALSE, FALSE, FALSE, FALSE >>
            /\ Flags(st') = << FALSE, FALSE, FALSE, FALSE >>
       /\ (GateInvoked /\ st.stopped) =>
            /\ st' = st
            /\ ~StepStarted
            /\ wpc' \in {"gate", "done", "wf_finally"}
            /\ planned' = planned
            /\ running_agents' = running_agents \/ running_agents' = << >>]_vars

\* after a pause() and a resume() the gate, which had waited in its pause
\* loop, has started the planning step with all four flags clear
C27_Witness ==
    /\ has_state
    /\ wpc = "plan_ctx"
    /\ obs.held
    /\ nctl = 2
    /\ Flags(st) = << FALSE, FALSE, FALSE, FALSE >>
\* The ids of the workers whose run() is in progress.
Executing ==
    CASE wpc = "s_run" -> { SingleId(1) }
      [] wpc = "p_run" ->
           { ParallelId(agents[j]) : j \in { k \in DOMAIN agents : wstat[k] = "running" } }
      [] OTHER -> {}

\* C28: at every moment the worker registry holds exactly the ids of the
\* workers that are executing: a worker is in it while it runs, and is out
\* of it once it has finished or has been cancelled.
C28_RegistryIsExecuting ==
    Range(running_agents) = Executing
\* The finally of the parallel dispatcher takes the id of task i out of the
\* registry in this step.
CleanedUp(i) ==
    /\ wpc \in {"p_register", "p_run", "p_cleanup"}
    /\ wpc' \notin {"done", "wf_finally"}
    /\ UNCHANGED ctlVars
    /\ ParallelId(i) \in Range(running_agents)
    /\ ParallelId(i) \notin Range(running_agents')

\* C29: the cleanup of a parallel dispatch releases the handle of a task
\* exactly when its descriptor names no explicit target: a task whose
\* descriptor (list or dict) names a target is only taken out of the
\* registry, a task without target has its handle released.
C29_CleanupByTarget ==
    [][\A i \in 1..MaxTasks :
         /\ (ParallelId(i) \in released' \ released)
               => ~st.browser_tasks[i].target
         /\ CleanedUp(i)
               => (ParallelId(i) \in released' <=> ~st.browser_tasks[i].target)]_vars
\* The finally of the parallel dispatcher is left in this step and the
\* dispatcher is back in its node: the last unregister_agent returned or
\* raised.
CleanupOver == wpc = "p_cleanup" /\ wpc' = "gate"

\* C30: when the cleanup of a parallel dispatch is over, it has dealt with
\* every task of the dispatch, even if releasing the handle of one task
\* failed: no id of the dispatch is in the registry, and the handle of
\* every task without list descriptor, other than the one whose release was
\* attempted last, has been released.
C30_CleanupCoversAllTasks ==
    [][CleanupOver =>
         \A i \in 1..Len(st.browser_tasks) :
           /\ ParallelId(i) \notin Range(running_agents')
           /\ (i # clean_idx /\ NeedsUnregister(st.browser_tasks[i]))
                => ParallelId(i) \in released']_vars
\* _browser_task_execution_node_impl returns in this step (from the
\* dispatcher's return or from its except branch).
DispatchStepEnds ==
    /\ node = "browser_task_execution"
    /\ \/ /\ \/ wpc = "gate" /\ steps' = steps + 1
             \/ wpc = "pause_sleep" /\ ~cancel_req
          /\ Flags(st) = << FALSE, FALSE, FALSE, FALSE >>
          /\ Len(st.browser_tasks) = 0
       \/ wpc \in {"s_focus", "s_run", "p_register", "p_run", "p_cleanup"}
    /\ wpc' = "gate"

\* The results a step appended
Appended == SubSeq(st'.browser_results, Len(st.browser_results) + 1,
                   Len(st'.browser_results))

\* C31: the task-dispatch step ends with the state back in planning and
\* with the earlier results kept in place: what it adds comes after them,
\* and is either what the dispatcher returned or, when the dispatcher
\* raised, one failed result per pending descriptor in descriptor order.
C31_DispatchAppends ==
    [][DispatchStepEnds =>
         /\ st'.current_step = "vibesurf_agent"
         /\ node' = "vibesurf_agent"
         /\ IsPrefix(st.browser_results, st'.browser_results)
         /\ \/ \A i \in DOMAIN Appended : Appended[i].agent_id # << "error", 0 >>
            \/ /\ Len(Appended) = Len(st.browser_tasks)
               /\ \A i \in DOMAIN Appended :
                    /\ Appended[i].agent_id = << "error", 0 >>
                    /\ Appended[i].task = i
                    /\ ~Appended[i].success
                    /\ Appended[i].error = Appended[1].error]_vars

\* a second dispatch, whose dispatcher raised, has added its failed results
\* after the results of the first
C31_Witness ==
    /\ has_state
    /\ wpc = "gate"
    /\ obs.dend = "returned"
    /\ obs.base > 0
    /\ Len(NewResults) = 2
    /\ st.browser_results[1].success
    /\ \A i \in DOMAIN NewResults : NewResults[i].agent_id = << "error", 0 >>
\* _report_task_execution_node_impl returns in this step.
ReportStepEnds == wpc = "r_gen" /\ wpc' # "r_gen" /\ ~cancel_req

\* C32: the summary step ends with the state back in planning and the
\* session going on; the stored artifact path is then the one just produced
\* (with a result entry in the log), or it is the one stored before and the
\* failure has been logged.
C32_ReportStepReturns ==
    [][ReportStepEnds =>
         /\ st'.current_step = "vibesurf_agent"
         /\ node' = "vibesurf_agent"
         /\ wpc' = "gate"
         /\ st'.is_complete = st.is_complete
         /\ st'.final_response = st.final_response
         /\ execution_task' = "active"
         /\ Len(activity_logs') = Len(activity_logs) + 1
         /\ \/ /\ st'.generated_report_path = ReportPath(steps)
               /\ activity_logs'[Len(activity_logs')] =
                     LogEntry("report_task_executor", "result")
            \/ /\ st'.generated_report_path = st.generated_report_path
               /\ activity_logs'[Len(activity_logs')] =
                     LogEntry("report_task_executor", "error")]_vars

\* a second summary step failed and the path of the first is still stored
C32_Witness ==
    /\ has_state
    /\ wpc = "gate"
    /\ steps = 4
    /\ st.generated_report_path = ReportPath(2)
    /\ activity_logs # << >>
    /\ activity_logs[Len(activity_logs)] = LogEntry("report_task_executor", "error")
\* tools.act returned its result for the action at the head of the list and
\* the node went on (to the next action, or to its return).
ActReturned == wpc = "plan_act" /\ ~cancel_req /\ acts' = Tail(acts)

\* C33: a planner action other than dispatch, summary and finish is
\* executed within the planning step: what act returns for it (content, an
\* error, both or neither) is appended to the message history and to the
\* activity log and the run task goes on; the action itself leaves the
\* session state as it was, in planning with the completion flag as it was
\* (when it is the last
\* action of the response, or another such action follows, nothing of the
\* state changes; a completion or a routing set in the same step is that of
\* the finish, dispatch or summary action that follows it in the response);
\* for a name that is not registered act returns an error result, which is
\* handled in the same way.
C33_OtherActionInPlace ==
    /\ \A o \in ActOutcomes : Act(FALSE, o) = "error"
    /\ [][ActReturned =>
            /\ \E r \in {"content", "error", "both", "empty"} :
                 /\ message_history' = message_history \o ResultMessages(r)
                 /\ activity_logs' = activity_logs \o ResultEntries(r)
            /\ st.current_step = "vibesurf_agent"
            /\ execution_task' = "active"
            /\ IF acts' = << >> \/ Head(acts').kind = "other"
               THEN /\ st' = st
                    /\ node' = "vibesurf_agent"
                    /\ wpc' = IF acts' = << >> THEN "gate" ELSE "plan_act"
               ELSE /\ st'.is_complete
                          = (st.is_complete \/ Head(acts').kind = "done")
                    /\ (st'.current_step # "vibesurf_agent")
                          = (Head(acts').kind \in {"dispatch", "report"})]_vars

\* the error of an action has been appended to history and log, and the
\* session is in planning, not complete
C33_Witness ==
    /\ has_state
    /\ wpc = "gate"
    /\ node = "vibesurf_agent"
    /\ steps = 1
    /\ ~st.is_complete
    /\ message_history # << >>
    /\ message_history[Len(message_history)] = "action_error"
    /\ activity_logs # << >>
    /\ activity_logs[Len(activity_logs)] = LogEntry("vibesurf_agent", "error")
\* A pause() or resume() returns in this step, at once or after its pass.
PassOpReturns ==
    /\ cpc' = "idle"
    /\ cpc # "idle" \/ nctl' = nctl + 1
    /\ ctl_result'.op \in {"pause", "resume"}

\* C34: pause() and resume() go over the whole registry whatever the hooks
\* do: when the operation returns, no registered worker that has the hook
\* is left behind the point its pass has reached, and it returns success.
C34_PassBestEffort ==
    [][PassOpReturns =>
         /\ ctl_result'.success
         /\ \A k \in (pass_idx + 1)..Len(running_agents) :
              ~HasHook(running_agents[k])]_vars
\* C35: a stop() that has been called returns, and when it has cancelled the
\* run task, the run() call it interrupted returns too, leaving the engine
\* idle: no session state, no run task, an empty registry.
C35_StopReturns ==
    /\ (cpc # "idle" /\ cop.op = "stop") ~> (cpc = "idle")
    /\ (obs.sc /\ rpc # "idle")
          ~> (/\ rpc = "idle"
              /\ ~has_state
              /\ execution_task = "none"
              /\ running_agents = << >>)
\* The pass of a stop(), pause() or resume() comes back from a worker hook
\* and finds the registry changed in size since its iterator was created.
PassDisturbed ==
    /\ cpc = "hook"
    /\ cop.op \in {"stop", "pause", "resume"}
    /\ Len(running_agents) # pass_size
    /\ cpc' # "hook" \/ pass_idx' # pass_idx

\* C36: a pass that the dispatcher disturbed (a worker was deregistered or
\* registered while a hook was awaited) is not given up: the operation does
\* not end there with a failure, and a stop() does not return while the run
\* task is active and not cancelled.
C36_PassNotDisturbed ==
    [][PassDisturbed =>
         /\ cpc' = "idle" => ctl_result'.success
         /\ (cop.op = "stop" /\ cpc' = "idle") => execution_task' # "active"]_vars
\* The last control operation that returned is a pause() that reported
\* success, and none is in progress.
PauseInForce ==
    /\ has_state
    /\ cpc = "idle"
    /\ ctl_result.op = "pause"
    /\ ctl_result.success

\* C37: from the return of pause() to the next resume() or stop(), no
\* worker of the session (of workers that have the pause hook) is running
\* without having taken the pause.
C37_NoWorkerRunsUnpaused ==
    (PauseInForce /\ whook) =>
        \A j \in DOMAIN agents : wstat[j] = "running" => wctl[j] # "run"
\* A dispatcher starts its workers in this step (agent.run() is called for
\* workers that were not running).
WorkersStarted ==
    /\ wpc \in {"s_focus", "p_register"}
    /\ wpc' \in {"s_run", "p_run"}

\* C38: once stop() has set the stopped flag, no step function begins, the
\* planner is not invoked, and no worker is started.
C38_NothingStartsAfterStop ==
    [][(has_state /\ st.stopped) =>
         /\ ~StepStarted
         /\ planned' <= planned
         /\ ~WorkersStarted]_vars
\* run() has returned and has not been called again.
AfterRun == rpc = "idle" /\ nruns >= 1

\* C39: between the return of run() and the next run() the engine has no
\* session state and no run task, its registry is empty and get_status()
\* answers "idle"; a stop(), pause() or resume() that returns then reports
\* success.
C39_IdleAfterRun ==
    [][AfterRun' =>
         /\ ~has_state'
         /\ execution_task' = "none"
         /\ running_agents' = << >>
         /\ GetStatus' = "idle"
         /\ (cpc' = "idle" /\ (cpc # "idle" \/ nctl' = nctl + 1)
               /\ ctl_result'.op \in {"stop", "pause", "resume"})
              => ctl_result'.success]_vars

\* run() has returned its cancellation response and a stop() called after
\* that is in progress on the idle engine
C39_Witness ==
    /\ AfterRun
    /\ last_response = "cancelled"
    /\ cpc = "pass_start"
    /\ cop.op = "stop"
    /\ ~has_state
    /\ running_agents = << >>
    /\ GetStatus = "idle"
\* C40: get_activity_logs for the current session answers from the log as
\* it is: with no index the whole log in append order, with an index below
\* the length the entry at that index, with an index at or beyond the
\* length nothing (None), and it raises no error.
C40_LogsReadWithinLength ==
    (cur_session_id # "none" /\ activity_logs # << >>) =>
        \A ix \in Indices :
          LET r == get_activity_logs(activity_logs, cur_session_id, "none", ix) IN
          /\ r.kind = "returned"
          /\ ix = << >> => r = Returned(activity_logs)
          /\ (ix # << >> /\ ix[1] < Len(activity_logs))
                => r = Returned(activity_logs[ix[1] + 1])
          /\ (ix # << >> /\ ix[1] >= Len(activity_logs))
                => r = Returned("None")
====
